---------------------------- MODULE Spec2Model ----------------------------
(***************************************************************************)
(* Model of the ULP PDF pipeline: the two HTTP handlers that render a      *)
(* shipment confirmation (app/main.py and app/api/render.py), the pydantic *)
(* Shipment model (app/models/shipment.py), the helpers (app/util) and     *)
(* the document assembler build_shipment_confirmation_pdf (app/pdf).       *)
(*                                                                         *)
(* Text is a sequence of one-character strings, so that the character      *)
(* level operations of the code (strip, lower, substring test, digit       *)
(* filter, slicing, join) are computed and not assumed.  A JSON value is   *)
(* a record tagged with its Python type.                                   *)
(***************************************************************************)
EXTENDS Integers, Sequences, FiniteSets, TLC

\* ------------------------------------------------------------------ bounds
\* Longest ReferenceNumbers / ServiceFlags / Items list a request carries.
MaxRefs == 2
MaxFlags == 2
MaxItems == 2
\* Most digits a generated phone string holds.
MaxPhoneDigits == 11
\* Last value of the wall clock (seconds) the environment reaches.
MaxClock == 1

\* ---------------------------------------------------------------- text
Upper == <<"A","B","C","D","E","F","G","H","I","J","K","L","M",
           "N","O","P","Q","R","S","T","U","V","W","X","Y","Z">>
Lower == <<"a","b","c","d","e","f","g","h","i","j","k","l","m",
           "n","o","p","q","r","s","t","u","v","w","x","y","z">>
Digits == {"0","1","2","3","4","5","6","7","8","9"}
Whitespace == {" ", "\t", "\n", "\r"}

\* str.isdigit() of one character
isdigit(ch) == ch \in Digits

\* str.lower() of one character, then of a text
lower_ch(ch) == IF \E i \in 1..26 : Upper[i] = ch
                THEN Lower[CHOOSE i \in 1..26 : Upper[i] = ch]
                ELSE ch
lower(t) == [i \in 1..Len(t) |-> lower_ch(t[i])]

\* str.strip(): drop leading and trailing whitespace
RECURSIVE lstrip(_)
lstrip(t) == IF t # <<>> /\ Head(t) \in Whitespace THEN lstrip(Tail(t)) ELSE t
RECURSIVE rstrip(_)
rstrip(t) == IF t # <<>> /\ t[Len(t)] \in Whitespace
             THEN rstrip(SubSeq(t, 1, Len(t) - 1)) ELSE t
strip(t) == rstrip(lstrip(t))

\* the Python test `b in t` on two texts
contains(t, b) ==
    \E i \in 0..(Len(t) - Len(b)) : SubSeq(t, i + 1, i + Len(b)) = b

\* the Python slice t[a:b] (0-based, clipped to the text)
slice(t, a, b) ==
    LET hi == IF b < Len(t) THEN b ELSE Len(t)
    IN  IF a >= hi THEN <<>> ELSE SubSeq(t, a + 1, hi)

\* sep.join(parts)
RECURSIVE join(_, _)
join(sep, parts) ==
    IF parts = <<>> THEN <<>>
    ELSE IF Len(parts) = 1 THEN parts[1]
    ELSE parts[1] \o sep \o join(sep, Tail(parts))

\* str.replace(old, new), left to right, non-overlapping (old non-empty)
RECURSIVE replace(_, _, _)
replace(t, old, new) ==
    IF Len(t) < Len(old) THEN t
    ELSE IF SubSeq(t, 1, Len(old)) = old
         THEN new \o replace(SubSeq(t, Len(old) + 1, Len(t)), old, new)
         ELSE <<Head(t)>> \o replace(Tail(t), old, new)

\* str(n) of a non-negative integer
DigitOf == <<"0","1","2","3","4","5","6","7","8","9">>
RECURSIVE int_str(_)
int_str(n) == IF n < 10 THEN <<DigitOf[n + 1]>>
              ELSE int_str(n \div 10) \o <<DigitOf[(n % 10) + 1]>>

\* ---------------------------------------------------------- JSON values
JNull == [t |-> "null"]
JStr(cs) == [t |-> "str", s |-> cs]
JBool(b) == [t |-> "bool", b |-> b]
JNum(n) == [t |-> "num", n |-> n]
JList(es) == [t |-> "list", e |-> es]
JObj(f) == [t |-> "obj", f |-> f]
EmptyMap == [k \in {} |-> JNull]

\* isinstance(v, dict)
isdict(v) == v.t = "obj"

\* Python truth value of a JSON value
truthy(v) ==
    CASE v.t = "null" -> FALSE
      [] v.t = "str"  -> v.s # <<>>
      [] v.t = "bool" -> v.b
      [] v.t = "num"  -> v.n # 0
      [] v.t = "list" -> v.e # <<>>
      [] v.t = "obj"  -> DOMAIN v.f # {}

\* `v or d`
or_default(v, d) == IF truthy(v) THEN v ELSE d

\* dict.get(k): None when the key is missing (d is a dict)
get(d, k) == IF k \in DOMAIN d.f THEN d.f[k] ELSE JNull

\* ------------------------------------------------- app/util/helpers.py
\* (mutant) str(v) alone: None is written out as the word None
s_of_none(v) ==
    CASE v.t = "null" -> <<"N","o","n","e">>
      [] v.t = "str"  -> v.s
      [] v.t = "bool" -> IF v.b THEN <<"T","r","u","e">> ELSE <<"F","a","l","s","e">>
      [] v.t = "num"  -> int_str(v.n)

\* s(v): "" for None, else str(v).  The requests enumerated below put only
\* scalars where the code applies s, so str() of a list or dict is not
\* modelled (TLC stops if one is ever reached).
s(v) ==
    CASE v.t = "null" -> <<>>
      [] v.t = "str"  -> v.s
      [] v.t = "bool" -> IF v.b THEN <<"T","r","u","e">> ELSE <<"F","a","l","s","e">>
      [] v.t = "num"  -> int_str(v.n)

\* get_path(d, *path, default): walk the keys, default at the first miss
RECURSIVE get_path(_, _, _)
get_path(cur, path, default) ==
    IF path = <<>> THEN cur
    ELSE IF ~isdict(cur) \/ Head(path) \notin DOMAIN cur.f THEN default
    ELSE get_path(cur.f[Head(path)], Tail(path), default)

\* The outcome of a call: a value, or the exception it raised.
Ok(v) == [ok |-> TRUE, v |-> v]
Raise(e) == [ok |-> FALSE, exc |-> e]

\* "".join(ch for ch in text if ch.isdigit())
RECURSIVE digits_of(_)
digits_of(t) ==
    IF t = <<>> THEN <<>>
    ELSE (IF isdigit(Head(t)) THEN <<Head(t)>> ELSE <<>>) \o digits_of(Tail(t))

\* (mutant) fmt_phone that reformats whenever at least ten digits remain
fmt_phone_at_least_ten(phone) ==
    LET p == or_default(phone, JStr(<<>>))
    IN  CASE p.t = "str" ->
               IF Len(digits_of(p.s)) >= 10
               THEN Ok(slice(digits_of(p.s), 0, 3) \o <<"-">> \o slice(digits_of(p.s), 3, 6)
                       \o <<"-">> \o slice(digits_of(p.s), 6, 10))
               ELSE Ok(p.s)
          [] p.t \in {"num", "bool"} -> Raise("TypeError")

\* fmt_phone(phone): iterating `phone or ""` raises TypeError for a truthy
\* number or bool; a text is filtered to its digits and reformatted when
\* exactly ten remain, otherwise `phone or ""` is returned.
fmt_phone(phone) ==
    LET p == or_default(phone, JStr(<<>>))
    IN  CASE p.t = "str" ->
               LET digits == digits_of(p.s)
               IN  IF Len(digits) = 10
                   THEN Ok(slice(digits, 0, 3) \o <<"-">> \o slice(digits, 3, 6)
                           \o <<"-">> \o slice(digits, 6, 10))
                   ELSE Ok(p.s)
          [] p.t \in {"num", "bool"} -> Raise("TypeError")

\* ---------------------------------------------- app/models/shipment.py
\* A pydantic field type: kind "str", "bool", "float", "list" (of item) or
\* "model" (with fields); optional when declared Optional[...].
TStr(opt) == [kind |-> "str", optional |-> opt]
TBool(opt) == [kind |-> "bool", optional |-> opt]
TFloat(opt) == [kind |-> "float", optional |-> opt]
TList(item) == [kind |-> "list", optional |-> FALSE, item |-> item]
TModel(fields, opt) == [kind |-> "model", optional |-> opt, fields |-> fields]
\* A declared field: its type, whether it is required, its default.
Field(sch, required, default) == [sch |-> sch, required |-> required, default |-> default]
OptField(sch) == Field(sch, FALSE, JNull)

ReferenceNumber ==
    TModel([ReferenceNumber |-> Field(TStr(FALSE), TRUE, JNull),
            Type |-> Field(TStr(FALSE), TRUE, JNull),
            IsPrimary |-> Field(TBool(FALSE), FALSE, JBool(FALSE))], FALSE)

ServiceFlag ==
    TModel([ServiceCode |-> Field(TStr(FALSE), TRUE, JNull),
            IsSelected |-> Field(TBool(FALSE), FALSE, JBool(FALSE))], FALSE)

Dates ==
    TModel([EarliestPickupDate |-> OptField(TStr(TRUE)),
            LatestPickupDate |-> OptField(TStr(TRUE)),
            EarliestDropDate |-> OptField(TStr(TRUE)),
            LatestDropDate |-> OptField(TStr(TRUE))], TRUE)

Contact ==
    TModel([Name |-> OptField(TStr(TRUE)),
            Email |-> OptField(TStr(TRUE)),
            Phone |-> OptField(TStr(TRUE))], TRUE)

Party ==
    TModel([Name |-> OptField(TStr(TRUE)),
            AddressLine1 |-> OptField(TStr(TRUE)),
            AddressLine2 |-> OptField(TStr(TRUE)),
            City |-> OptField(TStr(TRUE)),
            StateProvince |-> OptField(TStr(TRUE)),
            PostalCode |-> OptField(TStr(TRUE)),
            CountryCode |-> OptField(TStr(TRUE)),
            IsResidential |-> OptField(TBool(TRUE)),
            Comments |-> OptField(TStr(TRUE)),
            Contact |-> OptField(Contact)], TRUE)

Dimensions ==
    TModel([Length |-> OptField(TFloat(TRUE)),
            Width |-> OptField(TFloat(TRUE)),
            Height |-> OptField(TFloat(TRUE)),
            Uom |-> OptField(TStr(TRUE))], TRUE)

FreightClasses ==
    TModel([FreightClass |-> OptField(TFloat(TRUE)),
            Type |-> OptField(TStr(TRUE))], TRUE)

Weights ==
    TModel([Actual |-> OptField(TFloat(TRUE)),
            Uom |-> OptField(TStr(TRUE))], TRUE)

Quantities ==
    TModel([Actual |-> OptField(TFloat(TRUE)),
            Uom |-> OptField(TStr(TRUE))], TRUE)

Item ==
    TModel([Id |-> OptField(TStr(TRUE)),
            Description |-> OptField(TStr(TRUE)),
            Dimensions |-> OptField(Dimensions),
            FreightClasses |-> OptField(FreightClasses),
            NmfcCode |-> OptField(TStr(TRUE)),
            HazardousMaterial |-> OptField(TBool(TRUE)),
            Weights |-> OptField(Weights),
            Quantities |-> OptField(Quantities)], FALSE)

\* PaymentAddress declares the same fields as Party.
PaymentAddress == Party

Payment == TModel([Address |-> OptField(PaymentAddress)], TRUE)

Shipment ==
    TModel([Status |-> OptField(TStr(TRUE)),
            ReferenceNumbers |-> Field(TList(ReferenceNumber), FALSE, JList(<<>>)),
            ServiceFlags |-> Field(TList(ServiceFlag), FALSE, JList(<<>>)),
            Dates |-> OptField(Dates),
            Shipper |-> OptField(Party),
            Consignee |-> OptField(Party),
            Items |-> Field(TList(Item), FALSE, JList(<<>>)),
            Payment |-> OptField(Payment)], FALSE)

\* Shipment.model_validate: pydantic checks each declared field against
\* its annotation (lax mode: a bool also accepts 0, 1 and the usual yes/no
\* words, a float also accepts a bool or a text of digits) and keeps
\* unknown keys (extra="allow").
BoolWords ==
    {<<"0">>, <<"o","f","f">>, <<"f">>, <<"f","a","l","s","e">>, <<"n">>, <<"n","o">>,
     <<"1">>, <<"o","n">>, <<"t">>, <<"t","r","u","e">>, <<"y">>, <<"y","e","s">>}
TrueWords == {<<"1">>, <<"o","n">>, <<"t">>, <<"t","r","u","e">>, <<"y">>, <<"y","e","s">>}

is_number_text(t) == t # <<>> /\ \A i \in 1..Len(t) : isdigit(t[i])

RECURSIVE parse_int(_)
parse_int(t) ==
    IF t = <<>> THEN 0
    ELSE 10 * parse_int(SubSeq(t, 1, Len(t) - 1))
         + (CHOOSE d \in 0..9 : DigitOf[d + 1] = t[Len(t)])

\* whether a scalar passes its annotation
scalar_ok(v, kind) ==
    CASE kind = "str"   -> v.t = "str"
      [] kind = "bool"  -> \/ v.t = "bool"
                           \/ v.t = "num" /\ v.n \in {0, 1}
                           \/ v.t = "str" /\ lower(v.s) \in BoolWords
      [] kind = "float" -> \/ v.t \in {"num", "bool"}
                           \/ v.t = "str" /\ is_number_text(strip(v.s))

\* the value pydantic stores for a scalar that passed
scalar_value(v, kind) ==
    CASE kind = "str"   -> v
      [] kind = "bool"  -> IF v.t = "bool" THEN v
                           ELSE IF v.t = "num" THEN JBool(v.n = 1)
                           ELSE JBool(lower(v.s) \in TrueWords)
      [] kind = "float" -> IF v.t = "num" THEN v
                           ELSE IF v.t = "bool" THEN JNum(IF v.b THEN 1 ELSE 0)
                           ELSE JNum(parse_int(strip(v.s)))

\* e.errors(): the locations (paths of keys and list indices) that fail
RECURSIVE errors(_, _, _)
errors(v, sch, loc) ==
    IF v.t = "null"
    THEN IF sch.optional THEN {} ELSE {[loc |-> loc, type |-> sch.kind]}
    ELSE CASE sch.kind \in {"str", "bool", "float"} ->
                IF scalar_ok(v, sch.kind) THEN {} ELSE {[loc |-> loc, type |-> sch.kind]}
           [] sch.kind = "list" ->
                IF v.t # "list" THEN {[loc |-> loc, type |-> "list"]}
                ELSE UNION {errors(v.e[i], sch.item, loc \o <<[i |-> i - 1]>>) :
                            i \in 1..Len(v.e)}
           [] sch.kind = "model" ->
                IF v.t # "obj" THEN {[loc |-> loc, type |-> "model"]}
                ELSE UNION {IF k \in DOMAIN v.f
                            THEN errors(v.f[k], sch.fields[k].sch, loc \o <<[k |-> k]>>)
                            ELSE IF sch.fields[k].required
                                 THEN {[loc |-> loc \o <<[k |-> k]>>, type |-> "missing"]}
                                 ELSE {} : k \in DOMAIN sch.fields}

\* the model instance built from an input that has no errors
RECURSIVE construct(_, _)
construct(v, sch) ==
    IF v.t = "null" THEN JNull
    ELSE CASE sch.kind \in {"str", "bool", "float"} -> scalar_value(v, sch.kind)
           [] sch.kind = "list" ->
                JList([i \in 1..Len(v.e) |-> construct(v.e[i], sch.item)])
           [] sch.kind = "model" ->
                JObj([k \in (DOMAIN sch.fields) \cup (DOMAIN v.f) |->
                        IF k \in DOMAIN sch.fields
                        THEN IF k \in DOMAIN v.f
                             THEN construct(v.f[k], sch.fields[k].sch)
                             ELSE sch.fields[k].default
                        ELSE v.f[k]])

\* Shipment.model_validate(payload): the instance, or ValidationError
validated(payload, errs) ==
    IF errs = {} THEN Ok(construct(payload, Shipment))
    ELSE [ok |-> FALSE, exc |-> "ValidationError", errors |-> errs]

model_validate(payload) == validated(payload, errors(payload, Shipment, <<>>))

\* the loop of primary_reference: the first entry with IsPrimary set
RECURSIVE first_primary(_)
first_primary(refs) ==
    IF refs = <<>> THEN Raise("none")
    ELSE IF truthy(Head(refs).f.IsPrimary) THEN Ok(Head(refs).f.ReferenceNumber)
    ELSE first_primary(Tail(refs))

\* (mutant) primary_reference without the fallback to the first entry
primary_or_none(self, found) == IF found.ok THEN found.v ELSE JNull

\* Shipment.primary_reference(): the loop's hit, else the fallback
primary_or_first(self, found) ==
    IF found.ok THEN found.v
    ELSE IF truthy(self.f.ReferenceNumbers)
         THEN self.f.ReferenceNumbers.e[1].f.ReferenceNumber
         ELSE JNull

primary_reference(self) ==
    primary_or_first(self, first_primary(or_default(self.f.ReferenceNumbers, JList(<<>>)).e))

\* Shipment.selected_service_codes()
RECURSIVE selected_codes(_)
selected_codes(flags) ==
    IF flags = <<>> THEN <<>>
    ELSE (IF truthy(Head(flags).f.IsSelected) /\ truthy(Head(flags).f.ServiceCode)
          THEN <<Head(flags).f.ServiceCode>> ELSE <<>>) \o selected_codes(Tail(flags))

selected_service_codes(self) ==
    selected_codes(or_default(self.f.ServiceFlags, JList(<<>>)).e)

\* ------------------------------------- app/pdf/shipment_confirmation.py
\* What a `for` loop over a JSON value visits: the elements of a list, the
\* characters of a text; a number or a bool is not iterable.  (The loops
\* of the assembler run over `x or []`, so a falsy x arrives as [].)
iterate(v) ==
    CASE v.t = "list" -> Ok(v.e)
      [] v.t = "str"  -> Ok([i \in 1..Len(v.s) |-> JStr(<<v.s[i]>>)])
      [] v.t \in {"num", "bool"} -> Raise("TypeError")

\* The loop of _primary_ref: r.get raises AttributeError on an element
\* that is no dict; the first element with a truthy IsPrimary is returned.
RECURSIVE _primary_ref_loop(_)
_primary_ref_loop(rs) ==
    IF rs = <<>> THEN Ok(<<>>)
    ELSE IF ~isdict(Head(rs)) THEN Raise("AttributeError")
    ELSE IF truthy(get(Head(rs), "IsPrimary"))
         THEN Ok(s(get(Head(rs), "ReferenceNumber")))
    ELSE _primary_ref_loop(Tail(rs))

_primary_ref(req) ==
    LET it == iterate(or_default(get(req, "ReferenceNumbers"), JList(<<>>)))
    IN  IF it.ok THEN _primary_ref_loop(it.v) ELSE it

_first_pickup_date(req) ==
    s(get_path(req, <<"Dates", "EarliestPickupDate">>, JStr(<<>>)))

\* (mutant) only the two full phrases are blocked
blocked_phrases ==
    << <<"j","o","b"," ","n","a","m","e">>,
       <<"l","o","a","d"," ","n","u","m","b","e","r">> >>

blocked ==
    << <<"j","o","b"," ","n","a","m","e">>,
       <<"j","o","b">>,
       <<"l","o","a","d"," ","n","u","m","b","e","r">>,
       <<"l","o","a","d"," ","#">>,
       <<"l","o","a","d">> >>

_exclude_reference_type_pdf_(ref_type) ==
    LET t == lower(strip(ref_type))
    IN  IF t = <<>> THEN FALSE
        ELSE \E i \in 1..Len(blocked) : contains(t, blocked[i])

\* Layout elements of the story.
Paragraph(text, style) == [kind |-> "Paragraph", text |-> text, style |-> style]
FixedParagraph(literal, style) == [kind |-> "Paragraph", fixed |-> literal, style |-> style]
Spacer(hundredths) == [kind |-> "Spacer", h |-> hundredths]
HRFlowable == [kind |-> "HRFlowable"]
Table(name, rows) == [kind |-> "Table", name |-> name, rows |-> rows]

EmDash == <<"EM DASH">>
BrTag == <<"<","b","r","/",">">>

\* the non-empty ones of a sequence of texts, in order
RECURSIVE non_empty(_)
non_empty(ts) ==
    IF ts = <<>> THEN <<>>
    ELSE (IF Head(ts) # <<>> THEN <<Head(ts)>> ELSE <<>>) \o non_empty(Tail(ts))

\* " ".join([x for x in [f"{city},", st, pc] if x]).strip().replace(" ,", ",")
cityline_of(city, st, pc) ==
    replace(strip(join(<<" ">>, non_empty(<<city \o <<",">>, st, pc>>))),
            <<" ", ",">>, <<",">>)

\* the lines of party_block that follow the address lines
phone_line(ph) ==
    IF ph # <<>> THEN << <<"P","h","o","n","e",":"," ">> \o ph >> ELSE <<>>
residential_line(p, include_residential) ==
    IF include_residential /\ get(p, "IsResidential") = JBool(TRUE)
    THEN << <<"R","e","s","i","d","e","n","t","i","a","l",":"," ","Y","e","s">> >>
    ELSE <<>>

\* "<br/>".join(lines) if lines else ""
party_text(lines) == IF lines # <<>> THEN join(BrTag, lines) ELSE <<>>

\* party_block once the phone is formatted (ph is fmt_phone's outcome)
party_lines(p, include_residential, ph) ==
    IF ~ph.ok THEN ph
    ELSE Ok(party_text(
            non_empty(<<s(get(p, "Name")), s(get(p, "AddressLine1")),
                        s(get(p, "AddressLine2")),
                        cityline_of(s(get(p, "City")), s(get(p, "StateProvince")),
                                    s(get(p, "PostalCode"))),
                        s(get(p, "CountryCode"))>>)
            \o phone_line(ph.v)
            \o residential_line(p, include_residential)))

\* party_block(p, include_residential): p.get raises AttributeError when p
\* is no dict; fmt_phone may raise TypeError.
party_block(p, include_residential) ==
    IF ~isdict(p) THEN Raise("AttributeError")
    ELSE party_lines(p, include_residential,
                     fmt_phone(get_path(p, <<"Contact", "Phone">>, JStr(<<>>))))

\* refs = [r for r in refs_all if not _exclude_reference_type_pdf_(s(r.get("Type")))]
keep_ref(r, rest) ==
    IF ~rest.ok THEN rest
    ELSE IF _exclude_reference_type_pdf_(s(get(r, "Type"))) THEN rest
    ELSE Ok(<<r>> \o rest.v)

RECURSIVE filter_refs(_)
filter_refs(rs) ==
    IF rs = <<>> THEN Ok(<<>>)
    ELSE IF ~isdict(Head(rs)) THEN Raise("AttributeError")
    ELSE keep_ref(Head(rs), filter_refs(Tail(rs)))

\* ref_rows: the header row, then one row per kept reference
ref_rows_of(refs) ==
    << << <<"T","y","p","e">>,
          <<"R","e","f","e","r","e","n","c","e"," ","N","u","m","b","e","r">> >> >>
    \o [i \in 1..Len(refs) |-> <<s(get(refs[i], "Type")), s(get(refs[i], "ReferenceNumber"))>>]

\* one row of the items table; it.get / dims.get raise on a non-dict
item_cells(it, dims) ==
    IF ~isdict(dims) THEN Raise("AttributeError")
    ELSE Ok(<<s(get(it, "Description")),
              strip(s(get_path(it, <<"Quantities", "Actual">>, JStr(<<>>)))
                    \o <<" ">>
                    \o s(get_path(it, <<"Quantities", "Uom">>, JStr(<<>>)))),
              s(get_path(it, <<"Weights", "Actual">>, JStr(<<>>))),
              s(get(dims, "Length")) \o <<"x">> \o s(get(dims, "Width"))
                 \o <<"x">> \o s(get(dims, "Height")),
              s(get_path(it, <<"FreightClasses", "FreightClass">>, JStr(<<>>))),
              s(get(it, "NmfcCode"))>>)

item_row(it) ==
    IF ~isdict(it) THEN Raise("AttributeError")
    ELSE item_cells(it, or_default(get(it, "Dimensions"), JObj(EmptyMap)))

add_row(row, rest) ==
    IF ~row.ok THEN row
    ELSE IF ~rest.ok THEN rest
    ELSE Ok(<<row.v>> \o rest.v)

RECURSIVE item_rows(_)
item_rows(its) ==
    IF its = <<>> THEN Ok(<<>>)
    ELSE add_row(item_row(Head(its)), item_rows(Tail(its)))

ItemsHeader ==
    << <<"D","e","s","c","r","i","p","t","i","o","n">>, <<"Q","t","y">>,
       <<"W","t"," ","(","l","b",")">>, <<"D","i","m","s"," ","(","i","n",")">>,
       <<"C","l","a","s","s">>, <<"N","M","F","C">> >>

\* doc.build(story); buf.read(): the rendering engine lays the story out
\* and writes the PDF.  SimpleDocTemplate is constructed with buf, pagesize,
\* the four margins and title only (no invariant=1), so the engine stamps
\* the document information (CreationDate, ModDate) with the wall clock at
\* the time of the build.
doc_build(story, clock) ==
    [magic |-> "%PDF", title |-> "Bill of Lading", story |-> story,
     CreationDate |-> clock, ModDate |-> clock]

PrimaryReferenceLabel ==
    <<"<","b",">","P","r","i","m","a","r","y"," ","R","e","f","e","r","e","n","c","e",":","<","/","b",">"," ">>

\* HEADER: title, header_tbl (left, right), rule
header_of(pref, pickup_date) ==
    << Paragraph(<<"B","I","L","L"," ","O","F"," ","L","A","D","I","N","G">>, "BolTitle"),
       Table("header_tbl",
          << <<Paragraph(PrimaryReferenceLabel \o (IF pref # <<>> THEN pref ELSE EmDash),
                         "BolHeader"),
               Paragraph(<<"<","b",">","D","a","t","e",":","<","/","b",">"," ">>
                         \o (IF pickup_date # <<>> THEN pickup_date ELSE EmDash)
                         \o <<"<","b","r","/",">","<","b",">","T","e","r","m","s",":","<","/","b",">"," ",
                              "T","h","i","r","d"," ","P","a","r","t","y"," ","P","r","e","p","a","i","d">>,
                         "BolHeader")>> >>),
       Spacer(8), HRFlowable, Spacer(12) >>

\* SHIPPER / CONSIGNEE / BILL TO
parties_of(b1, b2, b3) ==
    << Table("parties_table",
          << <<FixedParagraph("<b>Shipper</b>", "Normal"),
               FixedParagraph("<b>Consignee</b>", "Normal"),
               FixedParagraph("<b>Bill To</b>", "Normal")>>,
             <<Paragraph(b1, "Small"), Paragraph(b2, "Small"), Paragraph(b3, "Small")>> >>) >>

\* REFERENCES: present only when a reference is left after the filter
references_of(refs) ==
    IF refs # <<>>
    THEN << Spacer(12),
            Table("right_half",
               << <<Paragraph(<<>>, "Small"), Table("ref_table", ref_rows_of(refs))>> >>) >>
    ELSE <<>>

\* ITEMS
items_of(items, rows) ==
    << Spacer(15), Paragraph(<<"I","t","e","m","s">>, "H2"),
       IF items = <<>>
       THEN Paragraph(<<"N","o"," ","i","t","e","m","s"," ","p","r","o","v","i","d","e","d",".">>, "Small")
       ELSE Table("itab", <<ItemsHeader>> \o rows) >>

\* NOTE BAR, FINE PRINT, SIGNATURES: fixed text
legal ==
    << Spacer(12),
       Table("note_tbl", << <<FixedParagraph("NOTE: Liability limitation for loss or damage in this shipment may be applicable. See 49 USC 14706(c)(1)(A) and (B).", "NoteBar")>> >>),
       Spacer(6),
       FixedParagraph("Received, subject to the agreement between the Carrier and listed Third Party. In effect on the date of shipment Carrier agrees that listed Third Party is the sole payer of the corresponding freight bill. This Bill of Lading is not subject to any tariffs or classifications, whether individually determined of filed with any federal or state regulatory agency, except as specifically agreed to in writing by the listed Third Party and Carrier.", "FinePrint"),
       Spacer(16),
       FixedParagraph("This is to certify that the above named materials are properly classified, described, packaged, marked and labeled, and are in proper condition for transportation according to the applicable regulations of the Department of Transportation.", "FinePrint"),
       Spacer(6),
       Table("sig_shipper", << <<"Shipper Signature: ________________________________", "Date: ________________">> >>),
       Spacer(12),
       FixedParagraph("Carrier acknowledges receipt of packages and required four (4) placards. Carrier certifies emergency response information was made available and/or carrier has the Department of Transportaton emergency response guidebook or equivalent documentation in vehicle. Property described above is received in good order, except as noted", "FinePrint"),
       Spacer(6),
       Table("sig_consignee", << <<"Consignee Signature: _____________________________", "Date: ________________">> >>),
       Spacer(10),
       Table("sig_driver", << <<"Driver Signature:  ________________________________", "Date: ________________">> >>) >>

\* The story of build_shipment_confirmation_pdf, section by section in the
\* order of the code; each step hands on the story so far, or the
\* exception raised (the first one in program order).
story_items(sofar, items, rows) ==
    IF ~rows.ok THEN rows
    ELSE Ok(sofar \o items_of(items, rows.v) \o legal)

story_items_list(sofar, items) ==
    IF ~items.ok THEN items
    ELSE story_items(sofar, items.v, item_rows(items.v))

story_refs(req, sofar, refs) ==
    IF ~refs.ok THEN refs
    ELSE story_items_list(sofar \o references_of(refs.v),
                          iterate(or_default(get(req, "Items"), JList(<<>>))))

story_refs_all(req, sofar, refs_all) ==
    IF ~refs_all.ok THEN refs_all
    ELSE story_refs(req, sofar, filter_refs(refs_all.v))

story_parties(req, sofar, b1, b2, b3) ==
    IF ~b1.ok THEN b1
    ELSE IF ~b2.ok THEN b2
    ELSE IF ~b3.ok THEN b3
    ELSE story_refs_all(req, sofar \o parties_of(b1.v, b2.v, b3.v),
                        iterate(or_default(get(req, "ReferenceNumbers"), JList(<<>>))))

story_header(req, pref) ==
    IF ~pref.ok THEN pref
    ELSE story_parties(req, header_of(pref.v, _first_pickup_date(req)),
            party_block(or_default(get(req, "Shipper"), JObj(EmptyMap)), TRUE),
            party_block(or_default(get(req, "Consignee"), JObj(EmptyMap)), TRUE),
            party_block(or_default(get_path(req, <<"Payment", "Address">>, JObj(EmptyMap)),
                                   JObj(EmptyMap)), FALSE))

story_of(req) == story_header(req, _primary_ref(req))

\* doc.build(story) on the assembled story
build_story(story, clock) ==
    IF story.ok THEN Ok(doc_build(story.v, clock)) ELSE story

\* build_shipment_confirmation_pdf(req), run when the clock shows `clock`
build_shipment_confirmation_pdf(req, clock) == build_story(story_of(req), clock)

\* -------------------------------------------------------- app/main.py
_extract_request(payload) ==
    IF isdict(payload) /\ "request" \in DOMAIN payload.f /\ isdict(payload.f.request)
    THEN payload.f.request
    ELSE IF isdict(payload) THEN payload
    ELSE JObj(EmptyMap)

\* ------------------------------------------------ requests of the model
Absent == [t |-> "absent"]
\* a JSON object from a record of fields, leaving out the Absent ones
Obj(fields) ==
    JObj([k \in {x \in DOMAIN fields : fields[x] # Absent} |-> fields[k]])

RefTypes ==
    { <<"P","O"," ","N","u","m","b","e","r">>,
      <<"L","o","a","d"," ","N","u","m","b","e","r">>,
      <<" ","J","O","B"," ","N","A","M","E">>,
      <<"J","o","b"," ","#">>,
      <<"P","a","y","l","o","a","d"," ","I","D">> }
\* the shapes of one ReferenceNumbers element: a full entry, an entry with
\* the value only, an element that is a text and not an object
RefShapes ==
    [shape : {"full"}, typ : RefTypes, prim : BOOLEAN]
    \cup {[shape |-> "bare"], [shape |-> "text"]}
Letter == <<"A", "B", "C", "D">>
\* the element of shape sh at position i; its value names the position
RefEntry(sh, i) ==
    CASE sh.shape = "full" ->
           Obj([ReferenceNumber |-> JStr(<<Letter[i]>>), Type |-> JStr(sh.typ),
                IsPrimary |-> JBool(sh.prim)])
      [] sh.shape = "bare" -> Obj([ReferenceNumber |-> JStr(<<Letter[i]>>)])
      [] sh.shape = "text" -> JStr(<<Letter[i]>>)
RefLists ==
    UNION {{JList([i \in 1..n |-> RefEntry(f[i], i)]) : f \in [1..n -> RefShapes]} :
             n \in 0..MaxRefs}
RefBodies ==
    {Obj([ReferenceNumbers |-> l]) : l \in RefLists \cup {JNull, JNum(5)}}

FlagCodes == { <<"L","G","1">>, <<"l","i","f","t">>, <<"H","A","Z">>, <<>> }
FlagEntries ==
    {Obj([ServiceCode |-> JStr(c), IsSelected |-> JBool(b)]) :
        c \in FlagCodes, b \in BOOLEAN}
FlagBodies ==
    {Obj([ServiceFlags |-> JList(f)]) :
        f \in UNION {[1..n -> FlagEntries] : n \in 0..MaxFlags}}

\* phone texts: the first k digits of 5551234567890..., bare, in the
\* (NNN) NNN-NNNN style, and with a leading + and a dot
PhoneDigits(k) == [i \in 1..k |-> IF i <= 3 THEN "5" ELSE DigitOf[((i - 3) % 10) + 1]]
Pretty(d) ==
    <<"(">> \o slice(d, 0, 3) \o <<")", " ">> \o slice(d, 3, 6) \o <<"-">>
    \o slice(d, 6, Len(d))
Dotted(d) == <<"+">> \o slice(d, 0, 1) \o <<".">> \o slice(d, 1, Len(d))
PhoneTexts ==
    UNION {{PhoneDigits(k), Pretty(PhoneDigits(k)), Dotted(PhoneDigits(k))} :
             k \in 0..MaxPhoneDigits}

Acme == JStr(<<"A","c","m","e">>)
CityParties ==
    {Obj([Name |-> n, City |-> c, StateProvince |-> st, PostalCode |-> pc]) :
        n \in {Absent, Acme},
        c \in {Absent, JStr(<<>>), JStr(<<"D","a","l","l","a","s">>)},
        st \in {Absent, JNull, JStr(<<"T","X">>)},
        pc \in {Absent, JStr(<<>>), JStr(<<"7","5","0","0","1">>)}}
PhoneParties ==
    {Obj([Contact |-> Obj([Phone |-> JStr(p)])]) : p \in PhoneTexts}
    \cup {Obj([Contact |-> c]) :
            c \in {JNull, JStr(<<"x">>), Obj([Phone |-> JNull]),
                   Obj([Phone |-> JNum(5551234)])}}
OtherParties ==
    {Obj([Name |-> Acme, IsResidential |-> r]) :
        r \in {JBool(TRUE), JBool(FALSE), JNum(1)}}
    \cup {Obj([Name |-> Acme, AddressLine1 |-> JStr(<<"1"," ","M","a","i","n">>),
               AddressLine2 |-> JStr(<<"#","2">>),
               City |-> JStr(<<"D","a","l","l","a","s">>),
               StateProvince |-> JStr(<<"T","X">>),
               PostalCode |-> JNum(75001), CountryCode |-> JStr(<<"U","S">>),
               IsResidential |-> JBool(TRUE),
               Contact |-> Obj([Phone |-> JStr(Pretty(PhoneDigits(10)))])])}
    \cup {JNull, JStr(<<"x">>)}
Parties == CityParties \cup PhoneParties \cup OtherParties
PartyBodies ==
    UNION {{Obj([Shipper |-> p]), Obj([Consignee |-> p]),
            Obj([Payment |-> Obj([Address |-> p])])} : p \in Parties}
    \cup {Obj([Payment |-> JNull]), Obj([Payment |-> JStr(<<"x">>)])}

Widget == JStr(<<"W","i","d","g","e","t">>)
ItemSamples ==
    { Obj([Description |-> Widget,
           Quantities |-> Obj([Actual |-> JNum(2), Uom |-> JStr(<<"P","L","T">>)]),
           Weights |-> Obj([Actual |-> JNum(150), Uom |-> JStr(<<"l","b">>)]),
           Dimensions |-> Obj([Length |-> JNum(48), Width |-> JNum(40), Height |-> JNum(36)]),
           FreightClasses |-> Obj([FreightClass |-> JNum(70)]),
           NmfcCode |-> JStr(<<"1","2","3","-","4">>)]),
      Obj([Description |-> Widget, Quantities |-> Obj([Actual |-> JNum(2)]),
           Dimensions |-> Obj([Length |-> JNum(48)])]),
      Obj([Description |-> JNull, Dimensions |-> JNull, Weights |-> JNull,
           Quantities |-> Obj([Uom |-> JStr(<<"P","L","T">>)])]),
      JObj(EmptyMap),
      Obj([Description |-> Widget, Dimensions |-> JStr(<<"4","8","x","4","0">>)]),
      JNull }
ItemBodies ==
    {Obj([Items |-> JList(f)]) :
        f \in UNION {[1..n -> ItemSamples] : n \in 0..MaxItems}}
    \cup {Obj([Items |-> JNull])}

DateBodies ==
    {Obj([Dates |-> d]) :
        d \in {JNull, JStr(<<"x">>), JObj(EmptyMap)}
              \cup {Obj([EarliestPickupDate |-> e]) :
                      e \in {JNull, JStr(<<>>),
                             JStr(<<"2","0","2","4","-","0","1","-","0","5">>),
                             JStr(<<"2","0","2","4","-","0","1","-","0","5"," ","0","8",":","0","0">>)}}}

StatusBodies ==
    {Obj([Status |-> v]) : v \in {JStr(<<"O","P","E","N">>), JNum(5)}}

\* shipment objects that carry a key named request of their own
OneRef == JList(<<RefEntry([shape |-> "full", typ |-> <<"B","O","L">>, prim |-> TRUE], 1)>>)
RequestKeyBodies ==
    {Obj([ReferenceNumbers |-> OneRef, request |-> r]) :
        r \in {JObj(EmptyMap), JStr(<<"x">>), Obj([Status |-> JStr(<<"O","P","E","N">>)])}}

ShipmentBodies ==
    {JObj(EmptyMap)} \cup RefBodies \cup FlagBodies \cup PartyBodies \cup ItemBodies
    \cup DateBodies \cup StatusBodies \cup RequestKeyBodies

\* the envelope {"endpoint":..., "email_to":..., "request": S}
Envelope(S) ==
    JObj([endpoint |-> JStr(<<"p","d","f">>), email_to |-> JStr(<<"a","@","b">>),
          request |-> S])

\* ------------------------------------------------------------ the state
VARIABLES
    now,     \* the wall clock of the host, in seconds
    phase,   \* "idle", "received" (a request is with its handler), "responded"
    route,   \* the route of the request: "main", "base64", "router", "health"
    raw,     \* the JSON body of the request
    handed,  \* the call the handler made to the assembler, if any
    resp,    \* the response
    prior    \* the previous exchange, kept while the client posts again

vars == <<now, phase, route, raw, handed, resp, prior>>

NoCall == [fn |-> "none"]
NoResp == [status |-> 0]
NoPrior == [set |-> FALSE]
PostRoutes == {"main", "base64", "router"}

Init ==
    /\ now = 0
    /\ phase = "idle"
    /\ route = "none"
    /\ raw = JNull
    /\ handed = NoCall
    /\ resp = NoResp
    /\ prior = NoPrior

\* time passes on the host
Tick ==
    /\ now < MaxClock
    /\ now' = now + 1
    /\ UNCHANGED <<phase, route, raw, handed, resp, prior>>

\* GET /health
health ==
    /\ phase = "idle"
    /\ phase' = "responded"
    /\ route' = "health"
    /\ resp' = [status |-> 200, json |-> [ok |-> TRUE]]
    /\ UNCHANGED <<now, raw, handed, prior>>

\* a client posts a JSON object to one of the render routes
Post ==
    /\ phase = "idle"
    /\ \E r \in PostRoutes, body \in ShipmentBodies :
          /\ route' = r
          /\ raw' = body
    /\ phase' = "received"
    /\ UNCHANGED <<now, handed, resp, prior>>

\* the response of main.py to a build that returned or raised
pdf_response(pdf) ==
    IF pdf.ok
    THEN [status |-> 200, media_type |-> "application/pdf", content |-> pdf.v,
          disposition |-> "inline; filename=shipment_confirmation.pdf"]
    ELSE [status |-> 500, exc |-> pdf.exc]

\* the response of the base64 route
base64_response(pdf) ==
    IF pdf.ok
    THEN [status |-> 200,
          json |-> [filename |-> "shipment_confirmation.pdf",
                    content_type |-> "application/pdf",
                    pdf_base64 |-> [b64encode |-> pdf.v]]]
    ELSE [status |-> 500, exc |-> pdf.exc]

\* main.py: POST /api/v1/render/shipment-confirmation
main_render_shipment_confirmation ==
    /\ phase = "received"
    /\ route = "main"
    /\ handed' = [fn |-> "build_shipment_confirmation_pdf", arg |-> _extract_request(raw)]
    /\ resp' = pdf_response(build_shipment_confirmation_pdf(_extract_request(raw), now))
    /\ phase' = "responded"
    /\ UNCHANGED <<now, route, raw, prior>>

\* main.py: POST /api/v1/render/shipment-confirmation/base64
render_shipment_confirmation_base64 ==
    /\ phase = "received"
    /\ route = "base64"
    /\ handed' = [fn |-> "build_shipment_confirmation_pdf", arg |-> _extract_request(raw)]
    /\ resp' = base64_response(build_shipment_confirmation_pdf(_extract_request(raw), now))
    /\ phase' = "responded"
    /\ UNCHANGED <<now, route, raw, prior>>

\* app.renderers.shipment_confirmation.render_shipment_confirmation_pdf is
\* not among the sources: its result is left uninterpreted.
render_shipment_confirmation_pdf(shipment) == [rendered |-> shipment]

\* api/render.py: what the handler does with the outcome of model_validate
api_call(shipment) ==
    IF ~shipment.ok THEN NoCall
    ELSE [fn |-> "render_shipment_confirmation_pdf", arg |-> shipment.v]

api_response(shipment) ==
    IF ~shipment.ok
    THEN [status |-> 422,
          json |-> [error |-> "VALIDATION_ERROR", details |-> shipment.errors]]
    ELSE [status |-> 200, media_type |-> "application/pdf",
          content |-> render_shipment_confirmation_pdf(shipment.v),
          filename |-> or_default(primary_reference(shipment.v), JStr(<<"d","o","c">>))]

\* api/render.py: POST /render/shipment-confirmation
api_render_shipment_confirmation ==
    /\ phase = "received"
    /\ route = "router"
    /\ handed' = api_call(model_validate(raw))
    /\ resp' = api_response(model_validate(raw))
    /\ phase' = "responded"
    /\ UNCHANGED <<now, route, raw, prior>>

\* the client posts again on the same route: the same body, or the same
\* body in the envelope; the exchange just ended is remembered
Repost ==
    /\ phase = "responded"
    /\ route \in PostRoutes
    /\ prior = NoPrior
    /\ prior' = [set |-> TRUE, raw |-> raw, handed |-> handed, resp |-> resp]
    /\ raw' \in {raw, Envelope(raw)}
    /\ phase' = "received"
    /\ handed' = NoCall
    /\ resp' = NoResp
    /\ UNCHANGED <<now, route>>

\* the exchange is over; nothing of it is kept
Close ==
    /\ phase = "responded"
    /\ phase' = "idle"
    /\ route' = "none"
    /\ raw' = JNull
    /\ handed' = NoCall
    /\ resp' = NoResp
    /\ prior' = NoPrior
    /\ UNCHANGED now

Next ==
    \/ Tick
    \/ health
    \/ Post
    \/ main_render_shipment_confirmation
    \/ render_shipment_confirmation_base64
    \/ api_render_shipment_confirmation
    \/ Repost
    \/ Close

Spec == Init /\ [][Next]_vars

\* ---------------------------------------------------------- properties
\* a handler has answered a POST by calling build_shipment_confirmation_pdf
Built == phase = "responded" /\ handed.fn = "build_shipment_confirmation_pdf"
\* ... and the build returned: the route "main" then carries the PDF
Rendered == Built /\ route = "main" /\ resp.status = 200
\* the story laid out in the PDF of a Rendered state
Story == resp.content.story
\* the table element of the story with the given name, if there is one
HasTable(name) ==
    \E i \in 1..Len(Story) : Story[i].kind = "Table" /\ Story[i].name = name
TableNamed(name) ==
    Story[CHOOSE i \in 1..Len(Story) : Story[i].kind = "Table" /\ Story[i].name = name]

\* C1: every request mapping handed to build_shipment_confirmation_pdf,
\* the empty one, one with absent or null optional fields and one with
\* malformed optional fields alike, is rendered: the build does not raise
\* and the response carries the (non-empty) document.
C1_BuildNeverRaises ==
    Built => /\ resp.status = 200
             /\ route = "main" => resp.content.magic = "%PDF"

\* the object a handler takes to be the shipment: main.py unwraps the
\* envelope, api/render.py validates the body as it is
shipment_object ==
    IF route = "router" THEN raw ELSE _extract_request(raw)
\* a known field of the object holds a value of the wrong type
has_wrong_type(obj) ==
    \E e \in errors(obj, Shipment, <<>>) : e.type # "missing"

\* C2: a POST to a shipment-confirmation render endpoint whose shipment
\* object has a known field of the wrong type ends in 422 with body
\* {"error": "VALIDATION_ERROR", "details": [...]} and the assembler is not
\* invoked; only structurally valid input reaches the 200 PDF response.
C2_WrongTypeIs422 ==
    (phase = "responded" /\ route \in {"main", "router"} /\ has_wrong_type(shipment_object))
    => /\ resp.status = 422
       /\ resp.json.error = "VALIDATION_ERROR"
       /\ resp.json.details # {}
       /\ handed = NoCall

\* C3: posting the envelope {"endpoint":..., "email_to":..., "request": S}
\* hands the assembler the same shipment object as posting S directly,
\* and the same document is laid out.
C3_EnvelopeSameAsDirect ==
    (phase = "responded" /\ route \in {"main", "router"} /\ prior.set
       /\ raw = Envelope(prior.raw))
    => /\ handed = prior.handed
       /\ resp.status = prior.resp.status
       /\ (route = "main" /\ resp.status = 200)
             => resp.content.story = prior.resp.content.story

\* the ReferenceNumbers of a validated Shipment
RefsOf(self) == self.f.ReferenceNumbers.e
\* the api/render.py handler validated the body and rendered `handed.arg`
Validated ==
    phase = "responded" /\ route = "router"
    /\ handed.fn = "render_shipment_confirmation_pdf"
\* what the claim expects of primary_reference on the references rs
ExpectedPrimary(rs) ==
    IF rs = <<>> THEN JNull
    ELSE IF \E i \in 1..Len(rs) : rs[i].f.IsPrimary = JBool(TRUE)
         THEN rs[CHOOSE i \in 1..Len(rs) :
                    /\ rs[i].f.IsPrimary = JBool(TRUE)
                    /\ \A j \in 1..(i - 1) : rs[j].f.IsPrimary # JBool(TRUE)].f.ReferenceNumber
         ELSE rs[1].f.ReferenceNumber

\* C4: primary_reference() returns the value of the first entry, in input
\* order, whose IsPrimary is true; the value of the first entry when no
\* entry is primary; None (not the empty string) when there is no entry.
\* The file name of the response is built from that result.
C4_PrimaryReference ==
    Validated =>
       /\ primary_reference(handed.arg) = ExpectedPrimary(RefsOf(handed.arg))
       /\ RefsOf(handed.arg) = <<>> => primary_reference(handed.arg) # JStr(<<>>)
       /\ resp.filename = IF RefsOf(handed.arg) = <<>> THEN JStr(<<"d","o","c">>)
                          ELSE ExpectedPrimary(RefsOf(handed.arg))

\* a later entry is the primary one and its value is what is returned
C4_Witness ==
    /\ Validated
    /\ Len(RefsOf(handed.arg)) = 2
    /\ RefsOf(handed.arg)[1].f.IsPrimary = JBool(FALSE)
    /\ RefsOf(handed.arg)[2].f.IsPrimary = JBool(TRUE)
    /\ primary_reference(handed.arg) = JStr(<<"B">>)
    /\ resp.filename = JStr(<<"B">>)

\* the text of the left header cell (Primary Reference) of the story
HeaderLeft == TableNamed("header_tbl").rows[1][1].text

\* C5: the Primary Reference of the header is what primary_reference()
\* gives on the same ReferenceNumbers (first primary entry, else the first
\* entry), and the placeholder only when primary_reference() is None.
C5_HeaderShowsPrimaryReference ==
    (Rendered /\ model_validate(handed.arg).ok)
    => HeaderLeft = PrimaryReferenceLabel \o
          (IF primary_reference(model_validate(handed.arg).v) = JNull THEN EmDash
           ELSE primary_reference(model_validate(handed.arg).v).s)

\* t holds the lower-case word w, compared without regard to case
HasWord(t, w) ==
    \E i \in 1..Len(t) :
       /\ i + Len(w) - 1 <= Len(t)
       /\ \A j \in 1..Len(w) : lower_ch(t[i + j - 1]) = w[j]
\* the references of the request of a Rendered state (all are objects)
RequestRefs == or_default(get(handed.arg, "ReferenceNumbers"), JList(<<>>)).e
\* the row of the reference table for the reference r
RefRow(r) == <<s(get(r, "Type")), s(get(r, "ReferenceNumber"))>>
\* the rows of the rendered reference table below its header row
RenderedRefRows ==
    IF HasTable("right_half")
    THEN Tail(TableNamed("right_half").rows[1][2].rows)
    ELSE <<>>
RefHeaderOk ==
    HasTable("right_half")
    => TableNamed("right_half").rows[1][2].rows[1]
         = << <<"T","y","p","e">>,
              <<"R","e","f","e","r","e","n","c","e"," ","N","u","m","b","e","r">> >>

\* the entries the claim as written keeps: Type holds neither "job name"
\* nor "load number"
KeptAsClaimed(r) ==
    /\ ~HasWord(s(get(r, "Type")), <<"j","o","b"," ","n","a","m","e">>)
    /\ ~HasWord(s(get(r, "Type")), <<"l","o","a","d"," ","n","u","m","b","e","r">>)
\* the entries the code keeps: Type holds neither "job" nor "load"
KeptByWord(r) ==
    /\ ~HasWord(s(get(r, "Type")), <<"j","o","b">>)
    /\ ~HasWord(s(get(r, "Type")), <<"l","o","a","d">>)
RECURSIVE RowsOf(_)
RowsOf(rs) == IF rs = <<>> THEN <<>> ELSE <<RefRow(Head(rs))>> \o RowsOf(Tail(rs))

\* C6 as written: below the header row the reference table has one row
\* per entry, in input order, for exactly the entries whose Type does not
\* contain "job name" or "load number" (case-insensitive).
C6_FilterAsClaimed ==
    Rendered => /\ RefHeaderOk
                /\ RenderedRefRows = RowsOf(SelectSeq(RequestRefs, KeptAsClaimed))

\* C6 amended: ... for exactly the entries whose Type does not contain
\* "job" or "load" (case-insensitive); the table is left out when no entry
\* is kept.
C6_FilterByWord ==
    Rendered => /\ RefHeaderOk
                /\ RenderedRefRows = RowsOf(SelectSeq(RequestRefs, KeptByWord))
                /\ HasTable("right_half") <=> SelectSeq(RequestRefs, KeptByWord) # <<>>

\* a "Load Number" entry is dropped and the "PO Number" entry after it is
\* the only row of the table
C6_Witness ==
    /\ Rendered
    /\ Len(RequestRefs) = 2
    /\ s(get(RequestRefs[1], "Type")) = <<"L","o","a","d"," ","N","u","m","b","e","r">>
    /\ s(get(RequestRefs[2], "Type")) = <<"P","O"," ","N","u","m","b","e","r">>
    /\ RenderedRefRows = << <<<<"P","O"," ","N","u","m","b","e","r">>, <<"B">>>> >>

\* the texts of the story's own paragraphs and of the paragraphs in the
\* cells of its header and parties tables
StoryTexts ==
    {Story[i].text : i \in {j \in 1..Len(Story) :
                              Story[j].kind = "Paragraph" /\ "text" \in DOMAIN Story[j]}}
    \cup {TableNamed("header_tbl").rows[1][c].text : c \in 1..2}
    \cup {TableNamed("parties_table").rows[2][c].text : c \in 1..3}
LiftgateCodes ==
    { <<"l","i","f","t","g","a","t","e">>, <<"l","i","f","t">>, <<"l","g">>, <<"l","g","1">> }
\* some service flag of the request is a selected liftgate flag
LiftgateSelected ==
    \E i \in 1..Len(or_default(get(handed.arg, "ServiceFlags"), JList(<<>>)).e) :
       /\ lower(s(get(or_default(get(handed.arg, "ServiceFlags"), JList(<<>>)).e[i],
                      "ServiceCode"))) \in LiftgateCodes
       /\ get(or_default(get(handed.arg, "ServiceFlags"), JList(<<>>)).e[i], "IsSelected")
            = JBool(TRUE)

\* C7: the document has a services line that reads "Appointment Required",
\* followed by ", Liftgate" exactly when a service flag with code LIFTGATE,
\* LIFT, LG or LG1 (any case) is selected.
C7_ServicesLine ==
    Rendered =>
       ( <<"A","p","p","o","i","n","t","m","e","n","t"," ","R","e","q","u","i","r","e","d">>
         \o (IF LiftgateSelected THEN <<",", " ", "L","i","f","t","g","a","t","e">> ELSE <<>>) )
       \in StoryTexts

\* the party objects of the request, in the order of the table's columns
PartyOf(c) ==
    CASE c = 1 -> or_default(get(handed.arg, "Shipper"), JObj(EmptyMap))
      [] c = 2 -> or_default(get(handed.arg, "Consignee"), JObj(EmptyMap))
      [] c = 3 -> or_default(get_path(handed.arg, <<"Payment", "Address">>, JObj(EmptyMap)),
                             JObj(EmptyMap))
\* the phone of party c when it is a text
PhoneOf(c) == get_path(PartyOf(c), <<"Contact", "Phone">>, JStr(<<>>))
HasPhoneText(c) == isdict(PartyOf(c)) /\ PhoneOf(c).t = "str"
\* the text of the cell of party c in the parties table
PartyCell(c) == TableNamed("parties_table").rows[2][c].text

IsDigitChar(ch) == ch \in {"0","1","2","3","4","5","6","7","8","9"}
\* what the claim expects of fmt_phone on the text p
ExpectedPhone(p) ==
    IF Len(SelectSeq(p, IsDigitChar)) = 10
    THEN [i \in 1..12 |->
            IF i \in {4, 8} THEN "-"
            ELSE SelectSeq(p, IsDigitChar)[IF i < 4 THEN i ELSE IF i < 8 THEN i - 1 ELSE i - 2]]
    ELSE p
PhoneLabel == <<"P","h","o","n","e",":"," ">>

\* C8: fmt_phone(p) drops the non-digits of p and returns NNN-NNN-NNNN when
\* exactly ten digits remain, and p itself otherwise (the empty p too);
\* the party block shows "Phone: " and that result when it is not empty.
C8_FmtPhone ==
    Built => \A c \in 1..3 :
       HasPhoneText(c) =>
          /\ fmt_phone(PhoneOf(c)) = Ok(ExpectedPhone(PhoneOf(c).s))
          /\ Rendered =>
               IF ExpectedPhone(PhoneOf(c).s) = <<>>
               THEN ~contains(PartyCell(c), PhoneLabel)
               ELSE contains(PartyCell(c), PhoneLabel \o ExpectedPhone(PhoneOf(c).s))

\* "(555) 123-4567" is shown as 555-123-4567
C8_Witness ==
    /\ Rendered
    /\ HasPhoneText(1)
    /\ PhoneOf(1).s = <<"(","5","5","5",")"," ","1","2","3","-","4","5","6","7">>
    /\ contains(PartyCell(1),
                PhoneLabel \o <<"5","5","5","-","1","2","3","-","4","5","6","7">>)

\* C9: two builds on the same input give the same output, whatever
\* happened in between: the output depends on the input alone.
C9_SameInputSameOutput ==
    (Built /\ prior.set /\ raw = prior.raw) => resp = prior.resp

\* party c has nothing but, possibly, a name and the three city fields
OnlyNameAndCity(c) ==
    /\ isdict(PartyOf(c))
    /\ DOMAIN PartyOf(c).f \subseteq {"Name", "City", "StateProvince", "PostalCode"}
\* the city line the claim expects: the non-empty ones of "City,", State
\* and PostalCode, one space apart; nothing when all three are empty
ExpectedCityLine(p) ==
    join(<<" ">>,
         non_empty(<<IF s(get(p, "City")) # <<>> THEN s(get(p, "City")) \o <<",">> ELSE <<>>,
                     s(get(p, "StateProvince")), s(get(p, "PostalCode"))>>))

\* C10: the city line of a party block is built from the non-empty values
\* among City, StateProvince and PostalCode only and is left out when all
\* three are empty, so a party with no populated field renders as empty
\* content.
C10_CityLine ==
    Rendered => \A c \in 1..3 :
       OnlyNameAndCity(c) =>
          PartyCell(c) = join(BrTag, non_empty(<<s(get(PartyOf(c), "Name")),
                                                 ExpectedCityLine(PartyOf(c))>>))

\* the text of the right header cell (Date, Terms) of the story
HeaderRight == TableNamed("header_tbl").rows[1][2].text
DateLabel == <<"<","b",">","D","a","t","e",":","<","/","b",">"," ">>
TermsLine ==
    BrTag \o <<"<","b",">","T","e","r","m","s",":","<","/","b",">"," ",
               "T","h","i","r","d"," ","P","a","r","t","y"," ","P","r","e","p","a","i","d">>
\* the part of a text before its first whitespace character
RECURSIVE before_whitespace(_)
before_whitespace(t) ==
    IF t = <<>> \/ Head(t) \in Whitespace THEN <<>>
    ELSE <<Head(t)>> \o before_whitespace(Tail(t))
\* Dates.EarliestPickupDate of a request as text, empty when not there
PickupText(req) ==
    IF ~isdict(get(req, "Dates")) THEN <<>>
    ELSE IF get(get(req, "Dates"), "EarliestPickupDate").t # "str" THEN <<>>
    ELSE get(get(req, "Dates"), "EarliestPickupDate").s

\* C11: the Date of the header is the part of Dates.EarliestPickupDate
\* before its first whitespace character (a time of day after the date is
\* cut off), and the placeholder dash when Dates or EarliestPickupDate is
\* absent or empty.
C11_HeaderDateOnly ==
    Rendered =>
       HeaderRight = DateLabel
          \o (IF before_whitespace(PickupText(handed.arg)) = <<>> THEN EmDash
              ELSE before_whitespace(PickupText(handed.arg)))
          \o TermsLine

\* the Items of a request, as the sequence of its line items
ItemsOf(req) ==
    IF get(req, "Items").t = "list" THEN get(req, "Items").e ELSE <<>>
\* the value of a line item under one key, or under two nested keys;
\* None when any of them is not there
Field1(it, k) == get(it, k)
Field2(it, k1, k2) ==
    IF isdict(get(it, k1)) THEN get(get(it, k1), k2) ELSE JNull
\* the string form of a scalar, the empty text for None
text_of(v) ==
    IF v.t = "null" THEN <<>>
    ELSE IF v.t = "str" THEN v.s
    ELSE IF v.t = "num" THEN int_str(v.n)
    ELSE IF v.b THEN <<"T","r","u","e">> ELSE <<"F","a","l","s","e">>
\* the row of the items table that the columns' rules give for one item
ExpectedItemRow(it) ==
    << text_of(Field1(it, "Description")),
       strip(text_of(Field2(it, "Quantities", "Actual")) \o <<" ">>
             \o text_of(Field2(it, "Quantities", "Uom"))),
       text_of(Field2(it, "Weights", "Actual")),
       join(<<"x">>, <<text_of(Field2(it, "Dimensions", "Length")),
                       text_of(Field2(it, "Dimensions", "Width")),
                       text_of(Field2(it, "Dimensions", "Height"))>>),
       text_of(Field2(it, "FreightClasses", "FreightClass")),
       text_of(Field1(it, "NmfcCode")) >>

\* C12: in every document built from a non-empty Items sequence the items
\* table is the header row followed by one row per item in input order,
\* row i holding Description, quantity and unit joined by a space and
\* trimmed, the weight value, Length x Width x Height, the freight class
\* and the NMFC code of item i, each absent or None value as the empty
\* text.
C12_ItemRows ==
    (Rendered /\ ItemsOf(handed.arg) # <<>>)
    => /\ HasTable("itab")
       /\ TableNamed("itab").rows =
             <<ItemsHeader>> \o
             [i \in 1..Len(ItemsOf(handed.arg)) |-> ExpectedItemRow(ItemsOf(handed.arg)[i])]

\* a document built from two different items, the second one with its
\* Description None and its weight and dimensions missing
C12_Witness ==
    /\ Rendered
    /\ Len(ItemsOf(handed.arg)) = 2
    /\ ItemsOf(handed.arg)[1] # ItemsOf(handed.arg)[2]
    /\ "Description" \in DOMAIN ItemsOf(handed.arg)[2].f
    /\ ItemsOf(handed.arg)[2].f.Description = JNull
    /\ HasTable("itab")
    /\ Len(TableNamed("itab").rows) = 3
    /\ TableNamed("itab").rows[2][2] = <<"2"," ","P","L","T">>
    /\ TableNamed("itab").rows[2][4] = <<"4","8","x","4","0","x","3","6">>
    /\ TableNamed("itab").rows[3] = << <<>>, <<"P","L","T">>, <<>>, <<"x","x">>, <<>>, <<>> >>

=============================================================================
